---- MODULE Spec2Model ----
(***************************************************************************)
(* graphql-anywhere-mongodb: the translation of a schema-less GraphQL      *)
(* document into per-collection MongoDB query specifications               *)
(* (src/src/graphql-to-mongo.ts).                                          *)
(*                                                                         *)
(* A document is a forest of fields kept as a table in document            *)
(* (pre-order) order; each row holds the field's name, its parent row      *)
(* (0 for a top-level field), its arguments in written order and its       *)
(* directives.  JavaScript objects whose key order the code reads          *)
(* (argument objects, the resolved result tree) are sequences of           *)
(* <<key, value>> pairs; the query/fields/sort maps of a Query Spec are    *)
(* functions from field paths (sequences of names, which path.join('.')    *)
(* maps one-to-one to strings because a GraphQL name holds no dot).        *)
(***************************************************************************)
EXTENDS Integers, Sequences, FiniteSets, TLC

VARIABLES doc, marks, variables, pc, ret, error,
          input, options, client, op, queryInfos, reads, settled, executed, driverLog, outcome

\* The state of a client and of the reads it has in flight.
clientVars ==
    <<input, options, client, op, queryInfos, reads, settled, executed, driverLog, outcome>>

vars == <<doc, marks, variables, pc, ret, error, clientVars>>

(***************************************************************************)
(* Bounds of the explored documents.                                       *)
(***************************************************************************)
MaxNodes == 5
MaxBreadth == 2
MaxDepth == 4
MaxMarks == 2

CollNames == <<"users", "events", "logs", "items">>
FieldNames == <<"a", "b", "c", "d">>
MarkerName == "isQuery"

(***************************************************************************)
(* JavaScript values.                                                      *)
(***************************************************************************)
Undefined == [type |-> "undefined"]
Num(n) == [type |-> "number", val |-> n]
Bool(b) == [type |-> "boolean", val |-> b]

IsDefined(v) == v.type # "undefined"

\* Ordered objects: sequences of <<key, value>>.
Keys(o) == [i \in 1..Len(o) |-> o[i][1]]
KeySet(o) == {o[i][1] : i \in 1..Len(o)}
HasKey(o, k) == k \in KeySet(o)
Get(o, k) == IF HasKey(o, k) THEN o[CHOOSE i \in 1..Len(o) : o[i][1] = k][2] ELSE Undefined

\* Unordered maps.
EmptyMap == [x \in {} |-> 0]
Put(f, k, v) == [x \in (DOMAIN f) \cup {k} |-> IF x = k THEN v ELSE f[x]]
Delete(f, k) == [x \in (DOMAIN f) \ {k} |-> f[x]]

(***************************************************************************)
(* The argument taxonomy.                                                  *)
(***************************************************************************)
ValidCollectionArgs == {"limit", "skip"}
ValidNonLeafArguments == {"include"}
ValidLeafArguments == {"eq", "ne", "gt", "gte", "lt", "lte", "in", "nin", "exists", "regex", "options"}
SpecialOperations == {"options"}

CollectionLevelText == "is not a valid collection-level argument."
NonLeafLevelText == "is not a valid non-leaf-level argument."
FieldLevelText == "is not a valid field-level argument."

NoError == [kind |-> "none"]
ArgumentError(arg, text) == [kind |-> "Error", arg |-> arg, text |-> text]
TypeError == [kind |-> "TypeError"]

\* keys(args).filter(not valid).forEach(throw): the first disallowed key throws.
FirstInvalid(args, valid) ==
    LET bad == {i \in 1..Len(args) : args[i][1] \notin valid}
    IN IF bad = {} THEN 0 ELSE CHOOSE i \in bad : \A j \in bad : i <= j

ValidateArgs(args, valid, text) ==
    LET i == FirstInvalid(args, valid)
    IN IF i = 0 THEN NoError ELSE ArgumentError(args[i][1], text)

ValidateCollectionArgs(args) == ValidateArgs(args, ValidCollectionArgs, CollectionLevelText)
\* Faulty variant: arguments at the wrong level of a non-leaf field are dropped silently.
ValidateNonLeafArgsSilent(args) == NoError
ValidateNonLeafArgs(args) == ValidateArgs(args, ValidNonLeafArguments, NonLeafLevelText)
\* Faulty variant: the leaf check reports with the message of the non-leaf check.
ValidateLeafArgumentsNonLeafText(args) == ValidateArgs(args, ValidLeafArguments, NonLeafLevelText)
ValidateLeafArguments(args) == ValidateArgs(args, ValidLeafArguments, FieldLevelText)

(***************************************************************************)
(* The document table.                                                     *)
(***************************************************************************)
Parent(d, i) == d[i].parent
IsRoot(d, i) == d[i].parent = 0
Children(d, i) == SelectSeq([j \in 1..Len(d) |-> j], LAMBDA j : d[j].parent = i)
\* info.isLeaf: the field has no selection set.
IsLeaf(d, i) == \A j \in 1..Len(d) : d[j].parent # i
Roots(d) == Children(d, 0)

RECURSIVE Depth(_, _)
Depth(d, i) == IF d[i].parent = 0 THEN 1 ELSE 1 + Depth(d, d[i].parent)

RECURSIVE AncestorsOrSelf(_, _)
AncestorsOrSelf(p, i) == IF i = 0 THEN {} ELSE {i} \cup AncestorsOrSelf(p, p[i])

RECURSIVE ParentDepth(_, _)
ParentDepth(p, i) == IF i = 0 THEN 0 ELSE 1 + ParentDepth(p, p[i])

\* Parent vectors of the forests in pre-order.
Shapes ==
    UNION {{p \in [1..n -> 0..(n - 1)] :
              /\ p[1] = 0
              /\ \A i \in 2..n : p[i] \in {0} \cup AncestorsOrSelf(p, i - 1)
              /\ \A i \in 1..n : ParentDepth(p, i) <= MaxDepth
              /\ \A q \in 0..(n - 1) : Cardinality({i \in 1..n : p[i] = q}) <= MaxBreadth}
           : n \in 1..MaxNodes}

Birth(p, i) == 1 + Cardinality({j \in 1..(i - 1) : p[j] = p[i]})

BareDocument(p) ==
    [i \in 1..Len(p) |->
        [name |-> IF p[i] = 0 THEN CollNames[Birth(p, i)] ELSE FieldNames[Birth(p, i)],
         parent |-> p[i],
         args |-> <<>>,
         dirs |-> {}]]

ArgNames == {"limit", "skip", "include", "eq", "regex", "options"}
DirNames == {"sort", "sortDesc"}
VarNames == {"v"}

Lit(v) == [kind |-> "lit", val |-> v]
VarRef(n) == [kind |-> "var", name |-> n]

\* The literal written for an argument, or a reference to a query variable.
ArgValues(name) == {Lit(IF name = "include" THEN Bool(TRUE) ELSE Num(5))} \cup {VarRef(n) : n \in VarNames}

VarsUsed(d) ==
    UNION {{d[i].args[k][2].name : k \in {k \in 1..Len(d[i].args) : d[i].args[k][2].kind = "var"}}
           : i \in 1..Len(d)}

\* The variable bindings a call may supply.  A binding is only ever looked up
\* at the names the document references, so the bindings range over those.
Bindings(d) == UNION {[S -> {Num(7)}] : S \in SUBSET VarsUsed(d)}

(***************************************************************************)
(* The GraphQL execution utility (graphql-anywhere), as graphqlToMongo     *)
(* uses it: a pre-order walk that calls the resolver once per field with   *)
(* the field's arguments (null when none are written; a variable absent    *)
(* from the binding gives the key with the value undefined) and returns    *)
(* the resolver's value for a leaf and the object of the children's        *)
(* results for a field with a selection set.                               *)
(***************************************************************************)
\* The args parameter of resolve; <<>> stands for null (the utility never
\* passes an empty object).
ArgumentsObject(field, binding) ==
    [k \in 1..Len(field.args) |->
        <<field.args[k][1],
          IF field.args[k][2].kind = "lit" THEN field.args[k][2].val
          ELSE IF field.args[k][2].name \in DOMAIN binding
               THEN binding[field.args[k][2].name]
               ELSE Undefined>>]

\* resolve, lines 103-109: the path of field i.
RECURSIVE Path(_, _)
Path(d, i) == IF d[i].parent = 0 THEN <<d[i].name>> ELSE Append(Path(d, d[i].parent), d[i].name)

\* resolve, lines 112-115: the metadata stored at context[pathKey].
MetaData(d, i, binding) == [directives |-> d[i].dirs, args |-> ArgumentsObject(d[i], binding)]

\* Faulty variant: a top-level field is validated against the collection-level
\* set only, also when it has no child selections.
ResolveRootCollectionOnly(d, i, binding) ==
    LET args == ArgumentsObject(d[i], binding)
        rootValue == ~IsRoot(d, i)
        isLeaf == IsLeaf(d, i)
    IN IF args = <<>> THEN NoError
       ELSE IF ~rootValue THEN ValidateCollectionArgs(args)
       ELSE IF ~isLeaf THEN ValidateNonLeafArgs(args)
       ELSE ValidateLeafArguments(args)

\* resolve, lines 117-131: the error the call for field i throws, if any.
Resolve(d, i, binding) ==
    LET args == ArgumentsObject(d[i], binding)
        rootValue == ~IsRoot(d, i)
        isLeaf == IsLeaf(d, i)
        e1 == IF ~rootValue /\ args # <<>> THEN ValidateCollectionArgs(args) ELSE NoError
        e2 == IF rootValue /\ ~isLeaf /\ args # <<>> THEN ValidateNonLeafArgs(args) ELSE NoError
        e3 == IF isLeaf /\ args # <<>> THEN ValidateLeafArguments(args) ELSE NoError
    IN IF e1.kind # "none" THEN e1
       ELSE IF e2.kind # "none" THEN e2
       ELSE e3

\* resolve, lines 133-136: the Resolved Node returned for field i.
ResolvedNode(d, i) == << <<"path", Path(d, i)>>, <<"isQuery", TRUE>> >>

\* The utility's result for field i.
RECURSIVE ExecuteField(_, _)
ExecuteField(d, i) ==
    IF IsLeaf(d, i) THEN ResolvedNode(d, i)
    ELSE LET ch == Children(d, i)
         IN [k \in 1..Len(ch) |-> <<d[ch[k]].name, ExecuteField(d, ch[k])>>]

\* graphql(resolve, query, null, context, variables), line 70.  The walk
\* calls resolve in document order, so the first field whose call throws ends
\* it; otherwise every field's metadata is in the context and the result
\* holds one entry per top-level field.
Graphql(d, binding) ==
    LET errs == [i \in 1..Len(d) |-> Resolve(d, i, binding)]
        bad == {i \in 1..Len(d) : errs[i].kind # "none"}
        first == IF bad = {} THEN 0 ELSE CHOOSE i \in bad : \A j \in bad : i <= j
        paths == [i \in 1..Len(d) |-> Path(d, i)]
        rs == Roots(d)
    IN [thrown |-> IF first = 0 THEN NoError ELSE errs[first],
        context |-> IF first # 0 THEN EmptyMap
                    ELSE [key \in {paths[i] : i \in 1..Len(d)} |->
                             MetaData(d, CHOOSE i \in 1..Len(d) : paths[i] = key, binding)],
        result |-> IF first # 0 THEN <<>>
                   ELSE [k \in 1..Len(rs) |-> <<d[rs[k]].name, ExecuteField(d, rs[k])>>]]

(***************************************************************************)
(* The translator.                                                         *)
(***************************************************************************)
\* The key `$${operation}` of a filter object.
OperatorKey(operation) == <<"$", operation>>

\* applyOperation, lines 192-202.
ApplyOperation(obj, operation, value) ==
    IF operation = "options"
    THEN IF OperatorKey("regex") \in DOMAIN obj /\ IsDefined(obj[OperatorKey("regex")])
         THEN Put(obj, OperatorKey("options"), value)
         ELSE obj
    ELSE Put(obj, OperatorKey(operation), value)

\* Faulty variant: the operations are applied in the order they are written in.
PrecedenceSortAsWritten(ks) == ks

\* keys(args).sort(precedenceSort), lines 63-65 and 169.  The comparator
\* looks at its first argument only; on an array of distinct keys both the
\* insertion sort and the merge sort of the JavaScript engine leave the
\* special operations after all the others.
PrecedenceSort(ks) ==
    SelectSeq(ks, LAMBDA a : a \notin SpecialOperations)
        \o SelectSeq(ks, LAMBDA a : a \in SpecialOperations)

\* buildQuery, lines 169-174: the operations of one leaf, applied in order.
RECURSIVE ApplyOperations(_, _, _, _)
ApplyOperations(operations, args, order, k) ==
    IF k > Len(order) THEN operations
    ELSE LET operation == order[k]
             value == Get(args, operation)
         IN ApplyOperations(IF IsDefined(value)
                            THEN ApplyOperation(operations, operation, value)
                            ELSE operations,
                            args, order, k + 1)

\* Faulty variant: a filter object that stays empty is left in the query map.
LeafQueryKeepEmpty(query, fieldPath, args) ==
    Put(query, fieldPath,
        ApplyOperations(IF fieldPath \in DOMAIN query THEN query[fieldPath] ELSE EmptyMap,
                        args, PrecedenceSort(Keys(args)), 1))

\* buildQuery, lines 168-179: the query map after a leaf has been processed.
LeafQuery(query, fieldPath, args) ==
    LET operations == ApplyOperations(IF fieldPath \in DOMAIN query THEN query[fieldPath] ELSE EmptyMap,
                                      args, PrecedenceSort(Keys(args)), 1)
    IN IF DOMAIN operations = {} THEN Delete(query, fieldPath)
       ELSE Put(query, fieldPath, operations)

\* buildQuery, line 153: does this field start a projected subtree?
IncludeApplies(ancestorProjected, args) ==
    ~ancestorProjected /\ Get(args, "include") = Bool(TRUE)

\* buildQuery, lines 158-164.
ApplySorting(sort, directives, fieldPath) ==
    LET s1 == IF "sort" \in directives THEN Put(sort, fieldPath, 1) ELSE sort
    IN IF "sortDesc" \in directives THEN Put(s1, fieldPath, -1) ELSE s1

\* Faulty variant: a leaf is projected also below a projected ancestor.
LeafProjectionAlways(fields, fieldPath, ancestorProjected) == Put(fields, fieldPath, 1)

\* buildQuery, lines 181-184.
LeafProjection(fields, fieldPath, ancestorProjected) ==
    IF ~ancestorProjected THEN Put(fields, fieldPath, 1) ELSE fields

\* buildQuery, line 155: the flag the rest of the loop (and the recursion)
\* goes on with after a field that started a projected subtree.
FlagAfterInclude(ancestorProjected, included) == ancestorProjected \/ included

\* buildQuery, lines 139-190.  The loop over keys(node) from its k-th key on;
\* ancestorProjected is the loop's local flag.  The value is the Query Spec
\* after the loop, or the TypeError of reading metaData.args when the context
\* holds no metadata for a key.
RECURSIVE BuildQuery(_, _, _, _, _, _)
BuildQuery(node, k, parents, queryInfo, context, ancestorProjected) ==
    IF k > Len(node) THEN [ok |-> TRUE, queryInfo |-> queryInfo]
    ELSE LET field == node[k][1]
             path == Append(parents, field)
             contextKey == <<queryInfo.collection>> \o path
         IN IF contextKey \notin DOMAIN context
            THEN [ok |-> FALSE, queryInfo |-> queryInfo]
            ELSE LET metaData == context[contextKey]
                     childNode == node[k][2]
                     args == metaData.args
                     included == IncludeApplies(ancestorProjected, args)
                     flag == FlagAfterInclude(ancestorProjected, included)
                     q1 == IF included
                           THEN [queryInfo EXCEPT !.fields = Put(@, path, 1)]
                           ELSE queryInfo
                     q2 == [q1 EXCEPT !.sort = ApplySorting(@, metaData.directives, path)]
                     sub == IF HasKey(childNode, "isQuery")
                            THEN [ok |-> TRUE,
                                  queryInfo |-> [q2 EXCEPT !.query = LeafQuery(@, path, args),
                                                           !.fields = LeafProjection(@, path, flag)]]
                            ELSE IF Len(childNode) > 0
                                 THEN BuildQuery(childNode, 1, path, q2, context, flag)
                                 ELSE [ok |-> TRUE, queryInfo |-> q2]
                 IN IF ~sub.ok THEN sub
                    ELSE BuildQuery(node, k + 1, parents, sub.queryInfo, context, flag)

\* Faulty variant: the extra parameters are copied without the test for undefined.
RECURSIVE ExtraParamsUnguarded(_, _, _)
ExtraParamsUnguarded(baseQuery, extraParams, k) ==
    IF k > Len(extraParams) THEN baseQuery
    ELSE ExtraParamsUnguarded(Put(baseQuery, extraParams[k][1], extraParams[k][2]),
                              extraParams, k + 1)

\* graphqlToMongo, lines 84-89: the extra parameters copied onto the spec.
RECURSIVE ExtraParams(_, _, _)
ExtraParams(baseQuery, extraParams, k) ==
    IF k > Len(extraParams) THEN baseQuery
    ELSE ExtraParams(IF IsDefined(extraParams[k][2])
                     THEN Put(baseQuery, extraParams[k][1], extraParams[k][2])
                     ELSE baseQuery,
                     extraParams, k + 1)

\* Faulty variant: one base object is shared by the collections, so the extra
\* parameters of another top-level field stay on a collection's spec.
BaseQueryShared(collection, context) ==
    LET roots == {x \in DOMAIN context : Len(x) = 1}
        other == CHOOSE x \in roots : roots = {<<collection>>} \/ x # <<collection>>
        shared == ExtraParams([collection |-> collection, query |-> EmptyMap,
                               fields |-> EmptyMap, sort |-> EmptyMap],
                              context[other].args, 1)
    IN ExtraParams(shared, context[<<collection>>].args, 1)

\* graphqlToMongo, lines 74-92.
BaseQuery(collection, context) ==
    ExtraParams([collection |-> collection, query |-> EmptyMap, fields |-> EmptyMap, sort |-> EmptyMap],
                context[<<collection>>].args, 1)

\* Faulty variant: the specs are collected in front of the list instead of
\* behind it, so they come out in reverse document order.
GraphqlToMongoReversed(query, binding) ==
    LET g == Graphql(query, binding)
        result == g.result
        n == Len(result)
        built == [k \in 1..n |->
                    BuildQuery(result[k][2], 1, <<>>, BaseQuery(result[k][1], g.context),
                               g.context, FALSE)]
    IN IF g.thrown.kind # "none" THEN [thrown |-> g.thrown, queries |-> <<>>]
       ELSE IF \E k \in 1..n : ~built[k].ok THEN [thrown |-> TypeError, queries |-> <<>>]
       ELSE [thrown |-> NoError, queries |-> [k \in 1..n |-> built[n + 1 - k].queryInfo]]

\* graphqlToMongo, lines 67-99: the Query Specs returned, or the error thrown.
GraphqlToMongo(query, binding) ==
    LET g == Graphql(query, binding)
        result == g.result
        queries == [k \in 1..Len(result) |-> BaseQuery(result[k][1], g.context)]
        built == [k \in 1..Len(result) |->
                    BuildQuery(result[k][2], 1, <<>>, queries[k], g.context, FALSE)]
    IN IF g.thrown.kind # "none" THEN [thrown |-> g.thrown, queries |-> <<>>]
       ELSE IF \E k \in 1..Len(result) : ~built[k].ok THEN [thrown |-> TypeError, queries |-> <<>>]
       ELSE [thrown |-> NoError, queries |-> [k \in 1..Len(result) |-> built[k].queryInfo]]

(***************************************************************************)
(* The state machine: a caller writes a document (a shape, then up to      *)
(* MaxMarks arguments, directives and field names on it) and calls         *)
(* graphqlToMongo with a variable binding.                                 *)
(***************************************************************************)
Init ==
    /\ doc \in {BareDocument(p) : p \in Shapes}
    /\ marks = 0
    /\ variables = EmptyMap
    /\ pc = "input"
    /\ ret = <<>>
    /\ error = NoError
    /\ input = "document"
    /\ options = Undefined
    /\ client = Undefined
    /\ op = "none"
    /\ queryInfos = <<>>
    /\ reads = <<>>
    /\ settled = <<>>
    /\ executed = <<>>
    /\ driverLog = <<>>
    /\ outcome = Undefined

\* Write the argument name: value after the arguments of field i.
AddArgument(i, name, value) ==
    /\ pc = "input"
    /\ marks < MaxMarks
    /\ ~HasKey(doc[i].args, name)
    /\ doc' = [doc EXCEPT ![i].args = Append(@, <<name, value>>)]
    /\ marks' = marks + 1
    /\ UNCHANGED <<variables, pc, ret, error, clientVars>>

\* Write the directive @dir on field i.
AddDirective(i, dir) ==
    /\ pc = "input"
    /\ marks < MaxMarks
    /\ dir \notin doc[i].dirs
    /\ doc' = [doc EXCEPT ![i].dirs = @ \cup {dir}]
    /\ marks' = marks + 1
    /\ UNCHANGED <<variables, pc, ret, error, clientVars>>

\* Name field i after the marker key of a Resolved Node.
NameField(i) ==
    /\ pc = "input"
    /\ marks < MaxMarks
    /\ \A j \in 1..Len(doc) : doc[j].parent = doc[i].parent => doc[j].name # MarkerName
    /\ doc' = [doc EXCEPT ![i].name = MarkerName]
    /\ marks' = marks + 1
    /\ UNCHANGED <<variables, pc, ret, error, clientVars>>

\* graphqlToMongo(doc, binding).
Translate ==
    /\ pc = "input"
    /\ \E binding \in Bindings(doc) :
         \E out \in {GraphqlToMongo(doc, binding)} :
            /\ variables' = binding
            /\ ret' = out.queries
            /\ error' = out.thrown
            /\ pc' = IF out.thrown.kind = "none" THEN "returned" ELSE "thrown"
    /\ UNCHANGED <<doc, marks, clientVars>>

Next ==
    \/ \E i \in 1..Len(doc) : \E name \in ArgNames : \E value \in ArgValues(name) :
         AddArgument(i, name, value)
    \/ \E i \in 1..Len(doc) : \E dir \in DirNames : AddDirective(i, dir)
    \/ \E i \in 1..Len(doc) : NameField(i)
    \/ Translate

Spec == Init /\ [][Next]_vars

(***************************************************************************)
(* The executor (mongo-queries.ts) and the MongoDB driver it calls.  The   *)
(* driver is the environment: each of its calls may succeed or fail, and   *)
(* the reads it has pending complete in any order.                         *)
(***************************************************************************)
Null == [type |-> "null"]
Arr(items) == [type |-> "array", items |-> items]
Prop(obj, key) == IF key \in DOMAIN obj THEN obj[key] ELSE Undefined

\* A document of a collection, and what a read of the collection may find.
Document(collection, n) == [type |-> "object", collection |-> collection, id |-> n]
DriverDocuments(collection) == {<<>>, <<Document(collection, 1), Document(collection, 2)>>}

\* The error a failing driver call throws or rejects with.
MongoError(call, collection) == [kind |-> "MongoError", call |-> call, collection |-> collection]

\* The driver calls the executor makes, as they are recorded in driverLog.
CollectionCall(name) == [call |-> "collection", collection |-> name]
FindCall(info) ==
    [call |-> "find", collection |-> info.collection, query |-> info.query,
     fields |-> info.fields, skip |-> Prop(info, "skip"), limit |-> Prop(info, "limit")]
SortCall(info) == [call |-> "sort", collection |-> info.collection, sort |-> info.sort]
ToArrayCall(info) == [call |-> "toArray", collection |-> info.collection]
\* Faulty variant: findOne passes the limit, skip and sort of the spec on.
FindOneCallPaged(info) ==
    [call |-> "findOne", collection |-> info.collection, query |-> info.query,
     fields |-> info.fields, skip |-> Prop(info, "skip"), limit |-> Prop(info, "limit"),
     sort |-> info.sort]

FindOneCall(info) ==
    [call |-> "findOne", collection |-> info.collection, query |-> info.query,
     fields |-> info.fields]

\* GraphQLExecutionResult.
ExecutionResult(collection, results, err) ==
    [collection |-> collection, results |-> results, error |-> err]

\* findAll line 72, findOne line 49: connection.collection(name) is called
\* before the try block, so its failure rejects the promise of the read.
StartRead(kind, info, handleOk) ==
    [kind |-> kind, info |-> info,
     stage |-> IF handleOk THEN "handle" ELSE "rejected",
     result |-> Null,
     cause |-> IF handleOk THEN Null ELSE MongoError("collection", info.collection)]

\* findAll line 74.
HasSort(info) == DOMAIN info.sort # {}

\* Faulty variant: the cursor is never sorted.
FindAllCallsUnsorted(info, fail) ==
    IF fail = "find" THEN <<FindCall(info)>>
    ELSE <<FindCall(info), ToArrayCall(info)>>

\* findAll lines 78-87: the driver calls made when the call named by fail
\* throws ("none": no call throws).
FindAllCalls(info, fail) ==
    IF fail = "find" THEN <<FindCall(info)>>
    ELSE IF HasSort(info)
         THEN IF fail = "sort" THEN <<FindCall(info), SortCall(info)>>
              ELSE <<FindCall(info), SortCall(info), ToArrayCall(info)>>
         ELSE <<FindCall(info), ToArrayCall(info)>>

\* findAll lines 94-99 and findOne lines 62-67: the result of a read whose
\* try block caught err.
Caught(read, err) ==
    [read EXCEPT !.stage = "resolved",
                 !.result = ExecutionResult(read.info.collection,
                                            IF read.kind = "findAll" THEN Arr(<<>>) ELSE Null,
                                            err)]

\* findAll lines 89-93 and findOne lines 57-61: the result of a read whose
\* driver call answered with results.
Answered(read, results) ==
    [read EXCEPT !.stage = "resolved",
                 !.result = ExecutionResult(read.info.collection, results, Null)]

\* findAll lines 76-87 and findOne lines 52-56, from the await of the
\* collection handle to the await of the driver's answer.
ContinueRead(read, fail) ==
    IF fail = "none" THEN [read EXCEPT !.stage = "pending"]
    ELSE Caught(read, MongoError(fail, read.info.collection))

ReadCalls(read, fail) ==
    IF read.kind = "findAll" THEN FindAllCalls(read.info, fail) ELSE <<FindOneCall(read.info)>>

\* Faulty variant: the results are collected as the reads resolve.
PromiseAllAsSettled(rs, order) == [k \in 1..Len(rs) |-> rs[order[k]].result]

\* findMultiple, lines 36-40: Promise.all gives the value of every read at the
\* place of its spec, whatever the order the reads resolved in.
PromiseAll(rs, order) == [k \in 1..Len(rs) |-> rs[k].result]

\* The driver calls whose throw the try block of a read can catch.
Failures(read) ==
    IF read.kind = "findOne" THEN {"none", "findOne"}
    ELSE {"none", "find"} \cup (IF HasSort(read.info) THEN {"sort"} ELSE {})

\* What the awaited driver call of a pending read may answer.
Answers(read) ==
    IF read.kind = "findAll"
    THEN {Arr(docs) : docs \in DriverDocuments(read.info.collection)}
    ELSE {Null, Document(read.info.collection, 1)}

(***************************************************************************)
(* The client (mongo-graphql-client.ts).                                   *)
(***************************************************************************)
DefaultLimit == 100
DefaultMaxLimit == 10000

UsageError(message) == [kind |-> "Error", message |-> message]
WhitelistError(collection) ==
    [kind |-> "Error", message |-> "Can not query collection", collection |-> collection]
MaxLimitError(info, maxLimit) ==
    [kind |-> "Error", message |-> "Limit exceeds the maximum", limit |-> info.limit,
     collection |-> info.collection, maxLimit |-> maxLimit]

\* String.prototype.toLowerCase on the collection names in use.
ToLowerCase(name) ==
    IF name = "Users" THEN "users"
    ELSE IF name = "Events" THEN "events"
    ELSE name

IsNumber(v) == v.type = "number"

\* constructor, lines 119-142: the client built from the options, or the
\* error thrown.
Constructor(opts) ==
    LET whitelist == [k \in 1..Len(opts.whitelist) |-> ToLowerCase(opts.whitelist[k])]
        defaultLimit == IF IsNumber(opts.defaultLimit) THEN opts.defaultLimit.val ELSE DefaultLimit
        maxLimit == IF IsNumber(opts.maxLimit) THEN opts.maxLimit.val ELSE DefaultMaxLimit
    IN IF defaultLimit > maxLimit
       THEN [thrown |-> UsageError("Default limit must be less than or equal to max limit"),
             client |-> Undefined]
       ELSE [thrown |-> NoError,
             client |-> [type |-> "client", whitelist |-> whitelist,
                         includeStack |-> opts.includeStack = Bool(TRUE),
                         defaultLimit |-> defaultLimit, maxLimit |-> maxLimit]]

\* Faulty variant: a missing document is passed on to the translator.
ParseDocumentLenient(query) == NoError

\* parseDocument, lines 266-277.
ParseDocument(query) ==
    IF query = "null" THEN UsageError("Must pass either document or string") ELSE NoError

\* find, lines 172-173.
WithDefaultLimit(info, defaultLimit) ==
    IF IsNumber(Prop(info, "limit")) THEN info ELSE Put(info, "limit", Num(defaultLimit))

Includes(list, x) == \E k \in 1..Len(list) : list[k] = x

FirstOf(S) == CHOOSE x \in S : \A y \in S : x <= y

\* Faulty variant: only the first collection is compared with the whitelist.
CheckWhitelistFirstOnly(infos, whitelist) ==
    IF Len(whitelist) = 0 \/ Len(infos) = 0
         \/ Includes(whitelist, ToLowerCase(infos[1].collection))
    THEN NoError
    ELSE WhitelistError(infos[1].collection)

\* find, lines 176-183: the first collection outside the whitelist throws.
CheckWhitelist(infos, whitelist) ==
    LET bad == {k \in 1..Len(infos) : ~Includes(whitelist, ToLowerCase(infos[k].collection))}
    IN IF Len(whitelist) = 0 \/ bad = {} THEN NoError
       ELSE WhitelistError(infos[FirstOf(bad)].collection)

\* Faulty variant: the maximum is not enforced.
CheckMaxLimitOff(infos, maxLimit) == NoError

\* find, lines 186-190: the first spec whose limit exceeds the maximum throws.
CheckMaxLimit(infos, maxLimit) ==
    LET bad == {k \in 1..Len(infos) : infos[k].limit.val > maxLimit}
    IN IF bad = {} THEN NoError ELSE MaxLimitError(infos[FirstOf(bad)], maxLimit)

\* Faulty variant: only an empty list of specs is refused.
CheckExactlyOneOrMore(queries) ==
    IF Len(queries) = 0
    THEN UsageError("Must have exactly one query for a findOne operation")
    ELSE NoError

\* findOne, lines 232-234.
CheckExactlyOne(queries) ==
    IF Len(queries) # 1
    THEN UsageError("Must have exactly one query for a findOne operation")
    ELSE NoError

\* defaultErrorFormatter, lines 256-264.
DefaultErrorFormatter(result, includeStack) ==
    [collection |-> result.collection,
     message |-> result.error,
     stack |-> IF includeStack THEN Arr(<<"stack", result.error.call>>) ELSE Undefined]

Collections(list) == {list[k].collection : k \in 1..Len(list)}
LastOf(list, collection) ==
    list[CHOOSE k \in 1..Len(list) :
            /\ list[k].collection = collection
            /\ \A j \in (k + 1)..Len(list) : list[j].collection # collection]

\* find, lines 196-198.
FormattedErrors(results, includeStack) ==
    LET failed == SelectSeq(results, LAMBDA result : result.error # Null)
    IN [k \in 1..Len(failed) |-> DefaultErrorFormatter(failed[k], includeStack)]

\* info.skip || 0, line 211.
SkipOrZero(info) == IF IsNumber(Prop(info, "skip")) THEN info.skip.val ELSE 0

\* Faulty variant: the list of errors is passed on as it is, also when empty.
FindResultErrorsList(results, infos, includeStack) ==
    [data |-> [c \in Collections(results) |-> LastOf(results, c).results],
     errors |-> Arr(FormattedErrors(results, includeStack)),
     meta |-> [c \in Collections(infos) |->
                 [limit |-> LastOf(infos, c).limit, skip |-> SkipOrZero(LastOf(infos, c))]]]

\* find, lines 196-214: the value the promise of find resolves with.
FindResult(results, infos, includeStack) ==
    LET errors == FormattedErrors(results, includeStack)
    IN [data |-> [c \in Collections(results) |-> LastOf(results, c).results],
        errors |-> IF Len(errors) = 0 THEN Undefined ELSE Arr(errors),
        meta |-> [c \in Collections(infos) |->
                    [limit |-> LastOf(infos, c).limit, skip |-> SkipOrZero(LastOf(infos, c))]]]

\* findOne, lines 240-247.
FindOneResult(result, includeStack) ==
    [data |-> IF result.error # Null THEN Null
              ELSE [type |-> "object", collection |-> result.collection, results |-> result.results],
     errors |-> IF result.error = Null THEN Undefined
                ELSE Arr(<<DefaultErrorFormatter(result, includeStack)>>)]

Resolved(value) == [type |-> "resolved", value |-> value]
Rejected(err) == [type |-> "rejected", error |-> err]

(***************************************************************************)
(* The documents and options the clients are run on.                       *)
(***************************************************************************)
MaxCollections == 2

ClientCollNames == <<"Users", "events", "logs">>
RootKinds == {"bare", "plain", "sorted"}
LimitKinds == {"none", "literal", "variable"}

LimitArgs(kind) ==
    IF kind = "none" THEN <<>>
    ELSE IF kind = "literal" THEN << <<"limit", Lit(Num(5))>> >>
    ELSE << <<"limit", VarRef("v")>> >>

\* The document with one top-level field per entry of roots: a bare field, or
\* a field selecting the leaf a, with @sort on it when sorted.
RECURSIVE ClientDocument(_, _, _)
ClientDocument(roots, k, d) ==
    IF k > Len(roots) THEN d
    ELSE LET root == [name |-> ClientCollNames[k], parent |-> 0,
                      args |-> LimitArgs(roots[k].limit), dirs |-> {}]
             leaf == [name |-> "a", parent |-> Len(d) + 1, args |-> <<>>,
                      dirs |-> IF roots[k].kind = "sorted" THEN {"sort"} ELSE {}]
         IN ClientDocument(roots, k + 1,
                           IF roots[k].kind = "bare" THEN Append(d, root)
                           ELSE Append(Append(d, root), leaf))

ClientDocuments ==
    UNION {{ClientDocument(roots, 1, <<>>) : roots \in [1..n -> [kind : RootKinds, limit : LimitKinds]]}
           : n \in 0..MaxCollections}

ClientOptions ==
    [whitelist : {<<>>, <<"Users">>, <<"events">>},
     includeStack : {Undefined, Bool(TRUE)},
     defaultLimit : {Undefined, Num(3)},
     maxLimit : {Undefined, Num(4)}]

(***************************************************************************)
(* The client state machine: a client is constructed, one find or findOne  *)
(* is called on it, and the reads it starts run to their completion.       *)
(***************************************************************************)
ClientInit ==
    /\ input \in {"null", "document"}
    /\ doc \in (IF input = "null" THEN {<<>>} ELSE ClientDocuments)
    /\ options \in ClientOptions
    /\ marks = 0
    /\ variables = EmptyMap
    /\ pc = "new"
    /\ ret = <<>>
    /\ error = NoError
    /\ client = Undefined
    /\ op = "none"
    /\ queryInfos = <<>>
    /\ reads = <<>>
    /\ settled = <<>>
    /\ executed = <<>>
    /\ driverLog = <<>>
    /\ outcome = Undefined

\* new MongoGraphQLClient(connection, options).
Construct ==
    /\ pc = "new"
    /\ \E made \in {Constructor(options)} :
         /\ client' = made.client
         /\ pc' = IF made.thrown.kind = "none" THEN "ready" ELSE "failed"
         /\ error' = made.thrown
    /\ UNCHANGED <<doc, marks, variables, ret, input, options, op, queryInfos, reads, settled,
                   executed, driverLog, outcome>>

\* The call ends with err before any read is started.
Reject(name, err, binding) ==
    /\ pc' = "rejected"
    /\ op' = name
    /\ outcome' = Rejected(err)
    /\ variables' = binding
    /\ UNCHANGED <<queryInfos, reads, driverLog>>

\* The reads of a call are started: every connection.collection call is made
\* before the first await gives the control back.
Start(name, kind, infos, binding) ==
    \E handles \in [1..Len(infos) -> BOOLEAN] :
        /\ pc' = "awaiting"
        /\ op' = name
        /\ variables' = binding
        /\ queryInfos' = infos
        /\ reads' = [k \in 1..Len(infos) |-> StartRead(kind, infos[k], handles[k])]
        /\ driverLog' = driverLog \o [k \in 1..Len(infos) |-> CollectionCall(infos[k].collection)]
        /\ UNCHANGED outcome

\* client.find(query, variables), lines 166-193, and findMultiple.
Find ==
    /\ pc = "ready"
    /\ \E binding \in Bindings(doc) :
         \E out \in {GraphqlToMongo(doc, binding)} :
            LET infos == [k \in 1..Len(out.queries) |->
                             WithDefaultLimit(out.queries[k], client.defaultLimit)]
            IN IF ParseDocument(input).kind # "none"
               THEN Reject("find", ParseDocument(input), binding)
               ELSE IF out.thrown.kind # "none" THEN Reject("find", out.thrown, binding)
               ELSE IF CheckWhitelist(infos, client.whitelist).kind # "none"
                    THEN Reject("find", CheckWhitelist(infos, client.whitelist), binding)
               ELSE IF CheckMaxLimit(infos, client.maxLimit).kind # "none"
                    THEN Reject("find", CheckMaxLimit(infos, client.maxLimit), binding)
               ELSE Start("find", "findAll", infos, binding)
    /\ UNCHANGED <<doc, marks, ret, error, input, options, client, settled, executed>>

\* client.findOne(query, variables), lines 226-237, and the executor's findOne.
FindOne ==
    /\ pc = "ready"
    /\ \E binding \in Bindings(doc) :
         \E out \in {GraphqlToMongo(doc, binding)} :
            IF ParseDocument(input).kind # "none"
            THEN Reject("findOne", ParseDocument(input), binding)
            ELSE IF out.thrown.kind # "none" THEN Reject("findOne", out.thrown, binding)
            ELSE IF CheckExactlyOne(out.queries).kind # "none"
                 THEN Reject("findOne", CheckExactlyOne(out.queries), binding)
            ELSE Start("findOne", "findOne", SubSeq(out.queries, 1, 1), binding)
    /\ UNCHANGED <<doc, marks, ret, error, input, options, client, settled, executed>>

\* The reads go on after the await of their handles in the order they were
\* started in: each makes its driver calls up to the one it awaits.
Continue(k) ==
    /\ reads[k].stage = "handle"
    /\ \A j \in 1..(k - 1) : reads[j].stage # "handle"
    /\ \E fail \in Failures(reads[k]) :
         /\ reads' = [reads EXCEPT ![k] = ContinueRead(@, fail)]
         /\ settled' = IF fail = "none" THEN settled ELSE Append(settled, k)
         /\ driverLog' = driverLog \o ReadCalls(reads[k], fail)
    /\ UNCHANGED <<doc, marks, variables, pc, ret, error, input, options, client, op, queryInfos,
                   executed, outcome>>

\* The driver answers the awaited call of read k, or fails it.
Complete(k) ==
    /\ reads[k].stage = "pending"
    /\ \A j \in 1..Len(reads) : reads[j].stage # "handle"
    /\ \/ \E answer \in Answers(reads[k]) : reads' = [reads EXCEPT ![k] = Answered(@, answer)]
       \/ reads' = [reads EXCEPT ![k] =
                       Caught(@, MongoError(IF @.kind = "findAll" THEN "toArray" ELSE "findOne",
                                            @.info.collection))]
    /\ settled' = Append(settled, k)
    /\ UNCHANGED <<doc, marks, variables, pc, ret, error, input, options, client, op, queryInfos,
                   executed, driverLog, outcome>>

\* The await of the call ends: Promise.all rejects with the first rejected
\* read, or gives the results in the order of the specs once every read has
\* resolved, and the call builds its value from them.
Resume ==
    /\ pc = "awaiting"
    /\ LET rejected == {k \in 1..Len(reads) : reads[k].stage = "rejected"}
           all == PromiseAll(reads, settled)
       IN IF rejected # {}
          THEN /\ outcome' = Rejected(reads[FirstOf(rejected)].cause)
               /\ pc' = "rejected"
               /\ UNCHANGED executed
          ELSE /\ \A k \in 1..Len(reads) : reads[k].stage = "resolved"
               /\ executed' = all
               /\ outcome' = Resolved(IF op = "find"
                                      THEN FindResult(all, queryInfos, client.includeStack)
                                      ELSE FindOneResult(all[1], client.includeStack))
               /\ pc' = "resolved"
    /\ UNCHANGED <<doc, marks, variables, ret, error, input, options, client, op, queryInfos,
                   reads, settled, driverLog>>

ClientNext ==
    \/ Construct
    \/ Find
    \/ FindOne
    \/ \E k \in 1..Len(reads) : Continue(k)
    \/ \E k \in 1..Len(reads) : Complete(k)
    \/ Resume

ClientSpec == ClientInit /\ [][ClientNext]_vars

(***************************************************************************)
(* What the claims speak about: the written document and the specs         *)
(* returned for it.                                                        *)
(***************************************************************************)
Fields == 1..Len(doc)
Returned == pc = "returned"
Thrown == pc = "thrown"
Called == pc # "input"

RECURSIVE RootOf(_, _)
RootOf(d, i) == IF d[i].parent = 0 THEN i ELSE RootOf(d, d[i].parent)

\* The dot-joined path below the collection.
RelPath(d, i) == Tail(Path(d, i))

ParentVector(d) == [j \in 1..Len(d) |-> d[j].parent]
ProperAncestors(d, i) == AncestorsOrSelf(ParentVector(d), i) \ {i}
Descendants(d, i) == {j \in 1..Len(d) : i \in ProperAncestors(d, j)}

\* The leaf fields below a collection.
LeafFields(d) == {i \in 1..Len(d) : ~IsRoot(d, i) /\ IsLeaf(d, i)}
LeafFieldsOf(d, r) == {i \in LeafFields(d) : RootOf(d, i) = r}

\* The value the call gives argument name of field i (undefined when the
\* argument is not written or its variable is not bound).
ValueOf(i, name) == Get(ArgumentsObject(doc[i], variables), name)
Written(i, name) == HasKey(doc[i].args, name)

\* The returned spec of the collection of top-level field r.
SpecOf(r) == ret[CHOOSE k \in 1..Len(ret) : ret[k].collection = doc[r].name]
HasSpec(r) == \E k \in 1..Len(ret) : ret[k].collection = doc[r].name

NoArguments == \A i \in Fields : doc[i].args = <<>>

\* C1: for every document with exactly one top-level field and no arguments
\* anywhere, graphqlToMongo returns exactly one Query Spec whose query map is
\* empty and whose fields map is exactly the set of all leaf field paths, each
\* mapped to 1.
C1_LeafPathsProjected ==
    (Called /\ Len(Roots(doc)) = 1 /\ NoArguments) =>
        /\ Returned
        /\ Len(ret) = 1
        /\ DOMAIN ret[1].query = {}
        /\ DOMAIN ret[1].fields = {RelPath(doc, i) : i \in LeafFields(doc)}
        /\ \A q \in DOMAIN ret[1].fields : ret[1].fields[q] = 1

\* C2: for every leaf field at any depth and every leaf argument other than
\* options whose value is present, the returned spec has
\* query[path]["$" + argument] equal to the value, and query has no key that is
\* not the path of a leaf field carrying at least one such argument.
FilterArgs(i) == {name \in KeySet(doc[i].args) \ {"options"} : IsDefined(ValueOf(i, name))}

C2_LeafFiltersInQuery ==
    Returned =>
        \A r \in {x \in Fields : IsRoot(doc, x)} :
            /\ HasSpec(r)
            /\ \A i \in LeafFieldsOf(doc, r) : \A name \in FilterArgs(i) :
                 /\ RelPath(doc, i) \in DOMAIN SpecOf(r).query
                 /\ OperatorKey(name) \in DOMAIN SpecOf(r).query[RelPath(doc, i)]
                 /\ SpecOf(r).query[RelPath(doc, i)][OperatorKey(name)] = ValueOf(i, name)
            /\ DOMAIN SpecOf(r).query
                 \subseteq {RelPath(doc, i) : i \in {j \in LeafFieldsOf(doc, r) : FilterArgs(j) # {}}}

\* C3: an argument whose value is a query variable absent from the binding is
\* omitted entirely: the returned specs are those of the document without that
\* argument, so a leaf's query[path] has no "$" key for it while the projection
\* is what it is without the argument, and a collection's limit or skip is not
\* a key of its spec.
UnboundArg(i, k) ==
    /\ doc[i].args[k][2].kind = "var"
    /\ doc[i].args[k][2].name \notin DOMAIN variables

\* The document with the arguments of unbound variables not written.
WithoutUnbound(d) ==
    [i \in 1..Len(d) |->
        [d[i] EXCEPT !.args = SelectSeq(@, LAMBDA a :
                                  ~(a[2].kind = "var" /\ a[2].name \notin DOMAIN variables))]]

C3_UnboundOmitted ==
    Returned =>
        /\ \A i \in Fields : \A k \in 1..Len(doc[i].args) :
             UnboundArg(i, k) =>
                LET name == doc[i].args[k][1]
                    spec == SpecOf(RootOf(doc, i))
                IN /\ (IsRoot(doc, i) => name \notin DOMAIN spec)
                   /\ (i \in LeafFields(doc) /\ RelPath(doc, i) \in DOMAIN spec.query
                         => OperatorKey(name) \notin DOMAIN spec.query[RelPath(doc, i)])
        /\ ret = GraphqlToMongo(WithoutUnbound(doc), variables).queries

C3_Witness ==
    /\ Returned
    /\ \E i \in LeafFields(doc) : \E k \in 1..Len(doc[i].args) : UnboundArg(i, k)
    /\ \E i \in Fields : IsRoot(doc, i) /\ \E k \in 1..Len(doc[i].args) : UnboundArg(i, k)
    /\ \A r \in Fields : IsRoot(doc, r) => DOMAIN SpecOf(r).fields # {}

\* A non-leaf field below a collection that carries include: true and has no
\* ancestor carrying it.
IncludeTrue(i) == ~IsRoot(doc, i) /\ ~IsLeaf(doc, i) /\ ValueOf(i, "include") = Bool(TRUE)
IncludedTop(i) == IncludeTrue(i) /\ \A a \in ProperAncestors(doc, i) : ~IncludeTrue(a)
Siblings(i) == {j \in Fields \ {i} : doc[j].parent = doc[i].parent}
ProjectedAt(spec, q) == q \in DOMAIN spec.fields /\ spec.fields[q] = 1

\* C4: include: true on a non-leaf field with no projected ancestor puts that
\* field's whole path into fields with value 1 and suppresses the projection
\* entries of all of its descendants, while the filter arguments of the
\* descendant leaves still populate query under their full paths.
C4_IncludeProjectsSubtree ==
    Returned =>
        \A i \in Fields : IncludedTop(i) =>
            LET spec == SpecOf(RootOf(doc, i))
            IN /\ ProjectedAt(spec, RelPath(doc, i))
               /\ \A j \in Descendants(doc, i) : RelPath(doc, j) \notin DOMAIN spec.fields
               /\ \A j \in Descendants(doc, i) \cap LeafFields(doc) : \A name \in FilterArgs(j) :
                    /\ RelPath(doc, j) \in DOMAIN spec.query
                    /\ OperatorKey(name) \in DOMAIN spec.query[RelPath(doc, j)]
                    /\ spec.query[RelPath(doc, j)][OperatorKey(name)] = ValueOf(j, name)

\* C5: the flag set by an include: true field applies only to that field's
\* own subtree: a leaf sibling of the included field, before or after it in
\* document order, still gets its own fields[path] = 1 entry.
C5_SiblingLeafProjected ==
    Returned =>
        \A i \in Fields : IncludedTop(i) =>
            \A j \in Siblings(i) : IsLeaf(doc, j) =>
                ProjectedAt(SpecOf(RootOf(doc, i)), RelPath(doc, j))

\* C6: when two sibling non-leaf fields under the same parent both carry
\* include: true, both of their paths are in fields with value 1.
C6_BothSiblingsProjected ==
    Returned =>
        \A i \in Fields : \A j \in Siblings(i) :
            (IncludedTop(i) /\ IncludedTop(j)) =>
                /\ ProjectedAt(SpecOf(RootOf(doc, i)), RelPath(doc, i))
                /\ ProjectedAt(SpecOf(RootOf(doc, i)), RelPath(doc, j))

\* C7: every non-root field carrying @sort has sort[path] = 1 and every one
\* carrying @sortDesc has sort[path] = -1, all in the one sort map of their
\* collection, which has no other keys.  (A field carrying both directives is
\* taken as descending.)
C7_SortDirectives ==
    Returned =>
        \A r \in {x \in Fields : IsRoot(doc, x)} :
            LET sort == SpecOf(r).sort
                below == {i \in Fields : ~IsRoot(doc, i) /\ RootOf(doc, i) = r}
            IN /\ \A i \in below :
                    /\ ("sort" \in doc[i].dirs /\ "sortDesc" \notin doc[i].dirs)
                         => (RelPath(doc, i) \in DOMAIN sort /\ sort[RelPath(doc, i)] = 1)
                    /\ "sortDesc" \in doc[i].dirs
                         => (RelPath(doc, i) \in DOMAIN sort /\ sort[RelPath(doc, i)] = -1)
               /\ DOMAIN sort \subseteq {RelPath(doc, i) : i \in {j \in below : doc[j].dirs # {}}}

(***************************************************************************)
(* The arguments a document has rejected, stated from the taxonomy.        *)
(***************************************************************************)
PermittedAt(d, i) ==
    IF IsRoot(d, i) THEN ValidCollectionArgs
    ELSE IF IsLeaf(d, i) THEN ValidLeafArguments
    ELSE ValidNonLeafArguments

LevelText(d, i) ==
    IF IsRoot(d, i) THEN CollectionLevelText
    ELSE IF IsLeaf(d, i) THEN FieldLevelText
    ELSE NonLeafLevelText

Disallowed(d, i) == {k \in 1..Len(d[i].args) : d[i].args[k][1] \notin PermittedAt(d, i)}
HasDisallowed(d) == \E i \in 1..Len(d) : Disallowed(d, i) # {}

\* A top-level field without child selections keeps none of its arguments.
BareRootWithArgs(d, i) == IsRoot(d, i) /\ IsLeaf(d, i) /\ d[i].args # <<>>
Rejecting(d) == {i \in 1..Len(d) : Disallowed(d, i) # {} \/ BareRootWithArgs(d, i)}
Least(S) == CHOOSE x \in S : \A y \in S : x <= y

FirstRejection(d) ==
    LET i == Least(Rejecting(d))
    IN IF Disallowed(d, i) # {}
       THEN ArgumentError(d[i].args[Least(Disallowed(d, i))][1], LevelText(d, i))
       ELSE ArgumentError(d[i].args[1][1], FieldLevelText)

RootsOf(d) == {x \in 1..Len(d) : IsRoot(d, x)}

\* limit and skip of a returned spec are the present values of its own
\* top-level field's arguments, and nothing else.
LimitSkipCopied ==
    Returned =>
        \A r \in RootsOf(doc) : \A name \in {"limit", "skip"} :
            IF IsDefined(ValueOf(r, name))
            THEN name \in DOMAIN SpecOf(r) /\ SpecOf(r)[name] = ValueOf(r, name)
            ELSE name \notin DOMAIN SpecOf(r)

\* C8 as stated: limit and skip on a top-level field with present values are
\* copied to that collection's spec and to no other; on any non-root field
\* they make graphqlToMongo throw a validation error naming the argument.
C8_Original ==
    /\ LimitSkipCopied
    /\ Called =>
         \A i \in Fields \ RootsOf(doc) : \A name \in {"limit", "skip"} :
            Written(i, name) =>
                Thrown /\ error.kind = "Error" /\ error.arg = name

\* C8 amended: as stated, except that the validation error thrown for limit or
\* skip on a non-root field names the first rejected argument of the document,
\* which is that argument when none is rejected before it.
C8_LimitSkip ==
    /\ LimitSkipCopied
    /\ Called =>
         \A i \in Fields \ RootsOf(doc) : \A k \in 1..Len(doc[i].args) :
            doc[i].args[k][1] \in {"limit", "skip"} =>
                /\ Thrown
                /\ error.kind = "Error"
                /\ (Least(Rejecting(doc)) = i /\ Least(Disallowed(doc, i)) = k)
                     => error = ArgumentError(doc[i].args[k][1], LevelText(doc, i))

C8_Witness ==
    /\ Returned
    /\ \E r1 \in RootsOf(doc) : \E r2 \in RootsOf(doc) \ {r1} :
         /\ Written(r1, "limit") /\ "limit" \in DOMAIN SpecOf(r1)
         /\ SpecOf(r1)["limit"] = Num(5)
         /\ "limit" \notin DOMAIN SpecOf(r2)

\* C9 as stated: every argument outside the permitted set for its level makes
\* graphqlToMongo throw an error naming that argument and its level.
C9_Original ==
    Called =>
        \A i \in Fields : \A k \in Disallowed(doc, i) :
            Thrown /\ error = ArgumentError(doc[i].args[k][1], LevelText(doc, i))

\* C9 amended: a document with a rejected argument makes graphqlToMongo throw
\* an error naming the first rejected argument in document order and the level
\* that rejected it, with one message per level; a top-level field without
\* child selections has every argument rejected, one outside the
\* collection-level set with the collection-level message and otherwise its
\* first one with the field-level message.
C9_FirstRejectionThrown ==
    /\ Cardinality({CollectionLevelText, NonLeafLevelText, FieldLevelText}) = 3
    /\ (Called /\ Rejecting(doc) # {}) => (Thrown /\ error = FirstRejection(doc))

C9_Witness ==
    /\ Thrown
    /\ error.kind = "Error"
    /\ \E i \in Fields : \E j \in Fields :
         /\ i < j
         /\ Disallowed(doc, i) # {} /\ Disallowed(doc, j) # {}
         /\ LevelText(doc, i) # LevelText(doc, j)
         /\ error.text = LevelText(doc, i)

\* C10: translation is all-or-nothing: if any field of any top-level
\* collection carries a disallowed argument, graphqlToMongo throws and
\* returns no Query Spec, also for the collections whose selections are valid.
C10_AllOrNothing ==
    (Called /\ HasDisallowed(doc)) => (Thrown /\ ret = <<>>)

C10_Witness ==
    /\ Thrown
    /\ ret = <<>>
    /\ \E r1 \in RootsOf(doc) : \E r2 \in RootsOf(doc) :
         /\ r1 < r2
         /\ ~IsLeaf(doc, r1)
         /\ \A i \in Fields : RootOf(doc, i) = r1 => doc[i].args = <<>>
         /\ \E i \in Fields : RootOf(doc, i) = r2 /\ Disallowed(doc, i) # {}

(***************************************************************************)
(* Regular expressions and the shape of the result.                        *)
(***************************************************************************)
Present(i, name) == IsDefined(ValueOf(i, name))

\* C11: for a leaf field, regex without options yields exactly
\* { $regex: value }; regex with options yields { $regex: value,
\* $options: value }; options without a present regex on the same field yields
\* no $options key and, if nothing else is set, no query entry for the path.
C11_RegexOptions ==
    Returned =>
        \A i \in LeafFields(doc) :
            LET query == SpecOf(RootOf(doc, i)).query
                path == RelPath(doc, i)
            IN /\ (Present(i, "regex") /\ ~Present(i, "options") /\ FilterArgs(i) = {"regex"})
                    => /\ path \in DOMAIN query
                       /\ query[path] = Put(EmptyMap, OperatorKey("regex"), ValueOf(i, "regex"))
               /\ (Present(i, "regex") /\ Present(i, "options") /\ FilterArgs(i) = {"regex"})
                    => /\ path \in DOMAIN query
                       /\ query[path] = Put(Put(EmptyMap, OperatorKey("regex"), ValueOf(i, "regex")),
                                            OperatorKey("options"), ValueOf(i, "options"))
               /\ (Present(i, "options") /\ ~Present(i, "regex"))
                    => /\ path \in DOMAIN query => OperatorKey("options") \notin DOMAIN query[path]
                       /\ FilterArgs(i) = {} => path \notin DOMAIN query

HasClient == client.type = "client"
ReadIds == 1..Len(reads)
LogIds == 1..Len(driverLog)

\* The driver calls that read a collection.
IsReadCall(entry) == entry.call \in {"find", "findOne"}

\* The translation the call made.
Translated == GraphqlToMongo(doc, variables)
TranslationOk == input = "document" /\ Translated.thrown.kind = "none"

FailedRead(k) ==
    \/ reads[k].stage = "rejected"
    \/ reads[k].stage = "resolved" /\ reads[k].result.error # Null
SucceededRead(k) == reads[k].stage = "resolved" /\ reads[k].result.error = Null

\* C13: when the client is configured with a non-empty whitelist, no find or
\* findOne issues a driver read against a collection whose name, compared
\* case-insensitively, is not in the whitelist: such a query is rejected with
\* an error before execution.
C13_WhitelistEnforced ==
    (HasClient /\ Len(client.whitelist) > 0) =>
        /\ \A t \in LogIds :
             IsReadCall(driverLog[t]) =>
                Includes(client.whitelist, ToLowerCase(driverLog[t].collection))
        /\ (op # "none" /\ TranslationOk
              /\ \E k \in 1..Len(Translated.queries) :
                   ~Includes(client.whitelist, ToLowerCase(Translated.queries[k].collection)))
             => (pc = "rejected" /\ driverLog = <<>>)

\* C14: findMultiple resolves to a sequence with exactly one result entry per
\* input Query Spec, in the same order as the specs, whatever the order in
\* which the per-collection reads complete.
C14_ResultsInSpecOrder ==
    (op = "find" /\ pc = "resolved") =>
        /\ Len(executed) = Len(queryInfos)
        /\ \A k \in 1..Len(executed) :
             /\ executed[k].collection = queryInfos[k].collection
             /\ executed[k] = reads[k].result

C14_Witness ==
    /\ op = "find"
    /\ pc = "resolved"
    /\ Len(executed) = 2
    /\ settled = <<2, 1>>
    /\ executed[1].error = Null
    /\ executed[2].error = Null

\* C15: findOne and findAll never reject: whichever driver call fails for a
\* collection (acquiring the collection handle, find/findOne, sort, or
\* toArray), the returned promise resolves with an error-carrying result
\* (results [] for findAll, null for findOne, error set to the cause).
C15_NeverRejects ==
    \A k \in ReadIds :
        /\ reads[k].stage # "rejected"
        /\ (reads[k].stage = "resolved" /\ reads[k].result.error # Null)
             => /\ reads[k].result.results = (IF reads[k].kind = "findAll" THEN Arr(<<>>) ELSE Null)
                /\ reads[k].result.error.kind = "MongoError"

\* C16: in a multi-collection find, if collection A's read fails and
\* collection B's read succeeds, the call does not reject, and its result has
\* B's documents under data.B unchanged, an entry in errors referencing
\* collection A, and data.A equal to the empty list.
C16_PartialFailure ==
    op = "find" =>
        \A a \in ReadIds : \A b \in ReadIds :
            (FailedRead(a) /\ SucceededRead(b)) =>
                /\ pc # "rejected"
                /\ pc = "resolved" =>
                     LET value == outcome.value
                         A == reads[a].info.collection
                         B == reads[b].info.collection
                     IN /\ value.data[B] = reads[b].result.results
                        /\ value.data[A] = Arr(<<>>)
                        /\ value.errors.type = "array"
                        /\ \E e \in 1..Len(value.errors.items) :
                             value.errors.items[e].collection = A

\* C17: the errors field of a find or findOne result is absent (undefined)
\* exactly when no read failed, and otherwise is a non-empty list with exactly
\* one formatted entry per failed collection; it is never an empty list.
C17_ErrorsAbsentOrNonEmpty ==
    pc = "resolved" =>
        LET errors == outcome.value.errors
            failed == SelectSeq(executed, LAMBDA result : result.error # Null)
        IN /\ (errors = Undefined) <=> (\A k \in ReadIds : ~FailedRead(k))
           /\ errors # Undefined =>
                /\ errors.type = "array"
                /\ Len(errors.items) > 0
                /\ Len(errors.items) = Cardinality({k \in ReadIds : FailedRead(k)})
                /\ \A e \in 1..Len(errors.items) :
                     /\ errors.items[e].collection = failed[e].collection
                     /\ errors.items[e].message = failed[e].error

C17_Witness ==
    /\ op = "find"
    /\ pc = "resolved"
    /\ Len(reads) = 2
    /\ FailedRead(1)
    /\ SucceededRead(2)
    /\ Len(outcome.value.errors.items) = 1

\* C18: client findOne fails with the usage error "Must have exactly one
\* query for a findOne operation" whenever translation yields a number of
\* Query Specs other than one (zero or several top-level fields), and in that
\* case issues no driver read.
C18_ExactlyOneSpec ==
    (op = "findOne" /\ TranslationOk /\ Len(Translated.queries) # 1) =>
        /\ pc = "rejected"
        /\ outcome = Rejected(UsageError("Must have exactly one query for a findOne operation"))
        /\ driverLog = <<>>
        /\ reads = <<>>

C18_Witness ==
    /\ op = "findOne"
    /\ TranslationOk
    /\ Len(Translated.queries) = 2
    /\ pc = "rejected"
    /\ outcome.error.kind = "Error"

C20_LimitsBounded ==
    (HasClient /\ op = "find") =>
        /\ IsNumber(options.defaultLimit) \/ client.defaultLimit = 100
        /\ IsNumber(options.maxLimit) \/ client.maxLimit = 10000
        /\ \A k \in 1..Len(queryInfos) :
             /\ IsNumber(queryInfos[k].limit)
             /\ queryInfos[k].limit.val <= client.maxLimit
             /\ queryInfos[k].limit =
                  (IF IsNumber(Prop(Translated.queries[k], "limit"))
                   THEN Translated.queries[k].limit
                   ELSE Num(client.defaultLimit))
        /\ \A t \in LogIds :
             driverLog[t].call = "find" =>
                \E k \in 1..Len(queryInfos) : driverLog[t] = FindCall(queryInfos[k])
        /\ (TranslationOk
              /\ \E k \in 1..Len(Translated.queries) :
                   /\ IsNumber(Prop(Translated.queries[k], "limit"))
                   /\ Translated.queries[k].limit.val > client.maxLimit)
             => (pc = "rejected" /\ outcome.error.kind = "Error" /\ driverLog = <<>>)

C20_Witness ==
    /\ op = "find"
    /\ Len(queryInfos) = 2
    /\ "limit" \notin DOMAIN Translated.queries[1]
    /\ queryInfos[1].limit = Num(3)
    /\ queryInfos[2].limit = Num(7)
    /\ \E t \in LogIds : driverLog[t].call = "find" /\ driverLog[t].limit = Num(7)

(***************************************************************************)
(* Claims C21 to C30.                                                      *)
(***************************************************************************)
\* C21: client find and findOne called with a null or undefined document
\* reject with the usage error "Must pass either document or string" and issue
\* no driver read.
C21_NullDocumentRejected ==
    (op # "none" /\ input = "null") =>
        /\ pc = "rejected"
        /\ outcome = Rejected(UsageError("Must pass either document or string"))
        /\ driverLog = <<>>
        /\ reads = <<>>

C21_Witness ==
    /\ op = "findOne"
    /\ input = "null"
    /\ pc = "rejected"
    /\ outcome.error.kind = "Error"

\* C22: in every Query Spec returned by graphqlToMongo, every entry of the
\* query map is a non-empty operator object: a leaf whose arguments all turn
\* out absent or ineffective (only options, or only unbound variables) leaves
\* no query[path] entry.
C22_NoEmptyFilter ==
    Returned =>
        \A k \in 1..Len(ret) :
            /\ \A path \in DOMAIN ret[k].query :
                 /\ DOMAIN ret[k].query[path] # {}
                 /\ \A key \in DOMAIN ret[k].query[path] : key[1] = "$"
            /\ \A i \in LeafFields(doc) :
                 (doc[RootOf(doc, i)].name = ret[k].collection /\ FilterArgs(i) = {})
                     => RelPath(doc, i) \notin DOMAIN ret[k].query

C22_Witness ==
    /\ Returned
    /\ \E i \in LeafFields(doc) : \E j \in LeafFields(doc) :
         /\ Present(i, "options")
         /\ Written(j, "eq") /\ ~Present(j, "eq")
         /\ \A k \in 1..Len(ret) : DOMAIN ret[k].query = {}

\* The document with the arguments of field i written in the reverse order.
Reverse(seq) == [k \in 1..Len(seq) |-> seq[Len(seq) + 1 - k]]
ArgsReversed(d, i) == [d EXCEPT ![i].args = Reverse(@)]

\* C23: the filter object produced for a leaf field does not depend on the
\* order in which its arguments are written: options is applied after all other
\* operators, so regex with options yields $options whether options is written
\* before or after regex, and a permutation of the same arguments yields the
\* same query[path].
C23_ArgumentOrderIrrelevant ==
    Returned =>
        \A i \in Fields :
            /\ Len(doc[i].args) > 1 =>
                 LET other == GraphqlToMongo(ArgsReversed(doc, i), variables)
                 IN /\ other.thrown.kind = "none"
                    /\ Len(other.queries) = Len(ret)
                    /\ \A k \in 1..Len(ret) : other.queries[k].query = ret[k].query
            /\ (i \in LeafFields(doc) /\ Present(i, "regex") /\ Present(i, "options")
                  /\ RelPath(doc, i) \in DOMAIN SpecOf(RootOf(doc, i)).query)
                 => LET operations == SpecOf(RootOf(doc, i)).query[RelPath(doc, i)]
                    IN /\ OperatorKey("options") \in DOMAIN operations
                       /\ operations[OperatorKey("options")] = ValueOf(i, "options")
                       /\ operations[OperatorKey("regex")] = ValueOf(i, "regex")

C23_Witness ==
    /\ Returned
    /\ \E i \in LeafFields(doc) :
         /\ Keys(doc[i].args) = <<"options", "regex">>
         /\ Present(i, "regex") /\ Present(i, "options")
         /\ RelPath(doc, i) \in DOMAIN SpecOf(RootOf(doc, i)).query
         /\ OperatorKey("options") \in DOMAIN SpecOf(RootOf(doc, i)).query[RelPath(doc, i)]

\* A check of find fails for the document: its translation throws, a
\* collection of it is outside a non-empty whitelist, or a limit of it exceeds
\* maxLimit.
OutsideWhitelist ==
    /\ Len(client.whitelist) > 0
    /\ \E k \in 1..Len(Translated.queries) :
         ~Includes(client.whitelist, ToLowerCase(Translated.queries[k].collection))
OverMaxLimit ==
    \E k \in 1..Len(Translated.queries) :
        /\ IsNumber(Prop(Translated.queries[k], "limit"))
        /\ Translated.queries[k].limit.val > client.maxLimit
CheckFails ==
    /\ input = "document"
    /\ \/ Translated.thrown.kind # "none"
       \/ OutsideWhitelist
       \/ OverMaxLimit

\* C24: in client find, all checks precede all reads: if translation throws,
\* any collection is not whitelisted, or any spec's limit exceeds maxLimit,
\* then no driver read is issued for any collection of the document, also not
\* for the collections that pass the checks.
C24_ChecksBeforeReads ==
    (op = "find" /\ CheckFails) =>
        /\ pc = "rejected"
        /\ outcome.error.kind \in {"Error", "TypeError"}
        /\ driverLog = <<>>
        /\ reads = <<>>

C24_Witness ==
    /\ op = "find"
    /\ pc = "rejected"
    /\ Translated.thrown.kind = "none"
    /\ Len(Translated.queries) = 2
    /\ Includes(client.whitelist, ToLowerCase(Translated.queries[1].collection))
    /\ ~Includes(client.whitelist, ToLowerCase(Translated.queries[2].collection))
    /\ driverLog = <<>>

Settled(k) == reads[k].stage \in {"resolved", "rejected"}

\* C25: the per-collection reads of one findMultiple call are independent: a
\* read is issued for every spec, a failure or delay of one collection's read
\* never cancels or prevents another collection's read from being issued and
\* completing, and findMultiple resolves once, and only once, all reads have
\* settled.
C25_IndependentReads ==
    (op = "find" /\ (pc \in {"awaiting", "resolved"} \/ reads # <<>>)) =>
        /\ Len(reads) = Len(queryInfos)
        /\ \A k \in ReadIds :
             /\ \E t \in LogIds : driverLog[t] = CollectionCall(queryInfos[k].collection)
             /\ reads[k].stage \in {"pending", "resolved"}
                  => \E t \in LogIds : driverLog[t] = FindCall(queryInfos[k])
        /\ pc # "awaiting" => (pc = "resolved" /\ \A k \in ReadIds : Settled(k))

\* The resolver's validation of field i, as the level taxonomy has it: the
\* first argument outside the one set of the field's level is refused with the
\* level's message.
ByLevel(i) ==
    IF Disallowed(doc, i) = {} THEN NoError
    ELSE ArgumentError(doc[i].args[Least(Disallowed(doc, i))][1], LevelText(doc, i))

WithArguments == {i \in Fields : doc[i].args # <<>>}
BareRoot(i) == IsRoot(doc, i) /\ IsLeaf(doc, i)
Refused == {i \in Fields : Resolve(doc, i, variables).kind # "none"}

\* C27 as stated: every field that carries arguments is validated against
\* exactly one of the three argument sets, chosen by its level: a root field
\* against the collection-level set only (whether or not it has child
\* selections), a non-root field with child selections against the non-leaf set
\* only, and a non-root field without child selections against the leaf set
\* only.
C27_Original ==
    Called => \A i \in WithArguments : Resolve(doc, i, variables) = ByLevel(i)

\* C27 amended: as stated for a root field with child selections and for the
\* non-root fields; a root field without child selections is validated against
\* the collection-level set and then against the leaf set, so that each of its
\* arguments is refused by one of the two.  The error graphqlToMongo throws is
\* that of the first refused field.
C27_ValidatedByLevel ==
    Called =>
        /\ \A i \in WithArguments :
             Resolve(doc, i, variables) =
                (IF BareRoot(i) /\ Disallowed(doc, i) = {}
                 THEN ArgumentError(doc[i].args[1][1], FieldLevelText)
                 ELSE ByLevel(i))
        /\ Refused # {} => (Thrown /\ error = Resolve(doc, Least(Refused), variables))

C27_Witness ==
    /\ Thrown
    /\ \E i \in WithArguments :
         /\ BareRoot(i)
         /\ Keys(doc[i].args) = <<"limit">>
         /\ error = ArgumentError("limit", FieldLevelText)

IsProperPrefix(p, q) == Len(p) < Len(q) /\ SubSeq(q, 1, Len(p)) = p

\* C28: the fields (projection) map of every returned Query Spec is
\* prefix-free: it never contains both a path and a proper dotted extension of
\* that path, for any nesting of include: true fields and leaves, and every
\* value in it is 1.
C28_PrefixFreeProjection ==
    Returned =>
        \A k \in 1..Len(ret) : \A p \in DOMAIN ret[k].fields :
            /\ ret[k].fields[p] = 1
            /\ \A q \in DOMAIN ret[k].fields : ~IsProperPrefix(p, q)

C28_Witness ==
    /\ Returned
    /\ \E i \in Fields : \E j \in Descendants(doc, i) :
         /\ IncludedTop(i)
         /\ IncludeTrue(j)
         /\ Descendants(doc, j) # {}
         /\ DOMAIN SpecOf(RootOf(doc, i)).fields = {RelPath(doc, i)}

\* C29: the translator's walk treats a field as a leaf exactly when the
\* resolver saw it as a leaf (no child selections): for every selection tree
\* and every choice of field names, a field with child selections is recursed
\* into and a field without child selections is handled as a leaf.  buildQuery
\* handles the node of a field as a leaf when it reads a truthy isQuery on it.
C29_WalkFollowsLeaves ==
    Called =>
        \A i \in Fields \ RootsOf(doc) :
            HasKey(ExecuteField(doc, i), MarkerName) <=> IsLeaf(doc, i)

\* The spec without its limit and skip and with an empty sort map.
WithoutPaging(info) ==
    [collection |-> info.collection, query |-> info.query, fields |-> info.fields,
     sort |-> EmptyMap]

\* C30: executor findOne passes only the spec's filter (query) and projection
\* (fields) to the driver: the spec's limit, skip and sort never influence
\* which document findOne returns.
C30_FindOneFilterAndProjectionOnly ==
    op = "findOne" =>
        \A t \in LogIds :
            /\ driverLog[t].call \in {"collection", "findOne"}
            /\ driverLog[t].call = "findOne" =>
                 /\ DOMAIN driverLog[t] = {"call", "collection", "query", "fields"}
                 /\ driverLog[t].query = queryInfos[1].query
                 /\ driverLog[t].fields = queryInfos[1].fields
                 /\ driverLog[t] = FindOneCall(WithoutPaging(queryInfos[1]))

C30_Witness ==
    /\ op = "findOne"
    /\ pc = "resolved"
    /\ Len(queryInfos) = 1
    /\ "limit" \in DOMAIN queryInfos[1]
    /\ HasSort(queryInfos[1])
    /\ \E t \in LogIds : driverLog[t].call = "findOne"
    /\ executed[1].results # Null

====
